---- MODULE Spec2Model ----
(***************************************************************************)
(* A model of the NicAPI (Lumaserv) DNS-01 solver of nicapi.go: the        *)
(* DNSProvider, its constructors, Present, CleanUp, getHostedZone,         *)
(* findTxtRecord and makeRequest, together with the provider's zone the    *)
(* HTTP requests act on.                                                   *)
(*                                                                         *)
(* Host and zone names are sequences of one-character strings, so that     *)
(* strings.TrimSuffix and util.UnFqdn are computed character by character. *)
(* Every other Go string is a TLA+ string.                                 *)
(***************************************************************************)
EXTENDS Integers, Sequences, FiniteSets, TLC

VARIABLES
    records,    \* the provider's zone: its records, in the order it lists them
    call,       \* per caller: the running Present or CleanUp and its locals
    http,       \* per caller: the HTTP exchange of the running makeRequest
    prev,       \* per caller: what its previous, returned call did
    provider,   \* the DNSProvider the callers share
    overlap,    \* whether a call was ever entered while another was running
    arg,        \* the input of a function applied on its own
    ret         \* what that function returned

vars == <<records, call, http, prev, provider, overlap, arg, ret>>

----------------------------------------------------------------------------
(* Bounds of the model *)

\* Records the provider's zone holds at most.
MaxRecords == 2
\* Entries of messages.errors in one envelope.
MaxErrors == 2
\* Entries of a list of recursive nameservers.
MaxNameservers == 2

----------------------------------------------------------------------------
(* Strings *)

APIURL == "https://connect.nicapi.eu/api/v1"

Digit(d) ==
    CASE d = 0 -> "0" [] d = 1 -> "1" [] d = 2 -> "2" [] d = 3 -> "3"
      [] d = 4 -> "4" [] d = 5 -> "5" [] d = 6 -> "6" [] d = 7 -> "7"
      [] d = 8 -> "8" [] d = 9 -> "9"

RECURSIVE Itoa(_)
\* strconv.Itoa, and fmt's %d: the decimal digits of n.
Itoa(n) ==
    IF n < 0 THEN "-" \o Itoa(0 - n)
    ELSE IF n < 10 THEN Digit(n)
    ELSE Itoa(n \div 10) \o Digit(n % 10)

\* util.UnFqdn: the name without one trailing dot.
UnFqdn(name) ==
    IF Len(name) # 0 /\ name[Len(name)] = "."
    THEN SubSeq(name, 1, Len(name) - 1)
    ELSE name

HasSuffix(s, suffix) ==
    /\ Len(s) >= Len(suffix)
    /\ SubSeq(s, Len(s) - Len(suffix) + 1, Len(s)) = suffix

\* strings.TrimSuffix
TrimSuffix(s, suffix) ==
    IF HasSuffix(s, suffix) THEN SubSeq(s, 1, Len(s) - Len(suffix)) ELSE s

\* The name derived without util.UnFqdn: the trailing dot of the fqdn
\* keeps the zone suffix from matching.
RecordName_KeepDot(fqdn, zoneName) == TrimSuffix(fqdn, <<".">> \o zoneName)

\* strings.TrimSuffix(util.UnFqdn(fqdn), fmt.Sprintf(".%s", zone.Zone.Name))
RecordName(fqdn, zoneName) == TrimSuffix(UnFqdn(fqdn), <<".">> \o zoneName)

----------------------------------------------------------------------------
(* The data types of nicapi.go *)

\* dnsRecord, with Go's zero value in every field that is not given.
dnsRecord(name, ttl, type, data) ==
    [ID |-> 0, Name |-> name, TTL |-> ttl, Type |-> type, Data |-> data,
     ZoneID |-> ""]

\* The JSON keys of a marshalled dnsRecord: id, ttl and zone_id are
\* omitempty, name, type and data are always written.
RecordKeys(r) ==
    {"name", "type", "data"}
        \cup (IF r.ID # 0 THEN {"id"} ELSE {})
        \cup (IF r.TTL # "" THEN {"ttl"} ELSE {})
        \cup (IF r.ZoneID # "" THEN {"zone_id"} ELSE {})

\* json.Marshal of a dnsRecord: the JSON object, a function of its keys.
MarshalRecord(r) ==
    [k \in RecordKeys(r) |->
        CASE k = "id" -> r.ID
          [] k = "name" -> r.Name
          [] k = "ttl" -> r.TTL
          [] k = "type" -> r.Type
          [] k = "data" -> r.Data
          [] k = "zone_id" -> r.ZoneID]

\* json.Marshal of a dnsPostRecord.
dnsPostRecord(zoneName, recs) ==
    [zone |-> zoneName, records |-> [i \in 1..Len(recs) |-> MarshalRecord(recs[i])]]

\* A nil *dnsRecord, the nil error and the package's sentinel error.
NilRecord == [ptr |-> "nil"]
NilErr == [kind |-> "nil"]
errNoExistingRecord == [kind |-> "errNoExistingRecord", text |-> <<"no existing record found">>]

----------------------------------------------------------------------------
(* Construction *)

\* The environment variable LUMASERV_API_KEY when it is not set.
Unset == [set |-> FALSE]

\* os.Getenv: the value of a variable, "" when it is not set.
Getenv(env) == IF env = Unset THEN "" ELSE env.value

\* NewDNSProviderCredentials without its check of the key.
NewDNSProviderCredentials_NoCheck(key, dns01Nameservers) ==
    [provider |-> [authKey |-> key, dns01Nameservers |-> dns01Nameservers],
     err |-> NilErr]

\* NewDNSProviderCredentials: (*DNSProvider, error).
NewDNSProviderCredentials(key, dns01Nameservers) ==
    IF key = ""
    THEN [provider |-> [ptr |-> "nil"],
          err |-> [kind |-> "errorf", text |-> <<"credentials missing">>]]
    ELSE [provider |-> [authKey |-> key, dns01Nameservers |-> dns01Nameservers],
          err |-> NilErr]

\* NewDNSProvider: the key is read from the environment.
NewDNSProvider(env, dns01Nameservers) ==
    NewDNSProviderCredentials(Getenv(env), dns01Nameservers)

----------------------------------------------------------------------------
(* findTxtRecord and makeRequest *)

RECURSIVE FirstNamed(_, _, _)
\* The loop matching on the type as well: the first TXT record named name.
FirstNamed_TxtOnly(recs, name, i) ==
    LET m == {j \in i..Len(recs) : recs[j].Name = name /\ recs[j].Type = "TXT"} IN
    IF m = {} THEN [record |-> NilRecord, err |-> errNoExistingRecord]
    ELSE [record |-> recs[CHOOSE j \in m : \A k \in m : j <= k], err |-> NilErr]

\* The loop of findTxtRecord from index i: the first record named name.
FirstNamed(recs, name, i) ==
    IF i > Len(recs) THEN [record |-> NilRecord, err |-> errNoExistingRecord]
    ELSE IF recs[i].Name = name THEN [record |-> recs[i], err |-> NilErr]
    ELSE FirstNamed(recs, name, i + 1)

\* findTxtRecord(zone, fqdn): (*dnsRecord, error).
findTxtRecord(zone, fqdn) ==
    FirstNamed(zone.Records, RecordName(fqdn, zone.Name), 1)

\* A null entry of messages.errors: a nil *APIMessage once decoded.
NullMessage == [ptr |-> "nil"]

\* fmt.Sprintf("\t Error: %d: %s", apiErr.Code, apiErr.Message)
ErrorLine(apiErr) == <<"\t Error: ", Itoa(apiErr.Code), ": ", apiErr.Message>>

RECURSIVE ErrStr(_, _)
\* errStr after the loop over Messages.Errors from index i.
ErrStr(errors, i) ==
    IF i > Len(errors) THEN <<>>
    ELSE ErrorLine(errors[i]) \o ErrStr(errors, i + 1)

\* No payload: a nil json.RawMessage.
NoData == [kind |-> "none"]

Returned(data, err) == [panic |-> FALSE, data |-> data, err |-> err]

\* The loop dereferences every entry: a nil one is a nil pointer dereference.
Panicked == [panic |-> TRUE, data |-> NoData, err |-> NilErr]

\* makeRequest with the decoder's error left unchecked: a body that is no
\* envelope leaves the zero APIResponse, whose status is not "success".
makeRequestResult_DecodeUnchecked(resp) ==
    IF resp.kind = "transport"
    THEN Returned(NoData, [kind |-> "transport",
                           text |-> <<"error querying API -> ", resp.cause>>])
    ELSE IF resp.kind = "garbled"
    THEN Returned(NoData, [kind |-> "api", text |-> <<"API error">>])
    ELSE IF resp.status # "success"
    THEN IF Len(resp.errors) > 0
         THEN IF \E i \in 1..Len(resp.errors) : resp.errors[i] = NullMessage
              THEN Panicked
              ELSE Returned(NoData, [kind |-> "api",
                                     text |-> <<"API Error \n">> \o ErrStr(resp.errors, 1)])
         ELSE Returned(NoData, [kind |-> "api", text |-> <<"API error">>])
    ELSE Returned(resp.data, NilErr)

\* makeRequest from client.Do on: what it returns for the outcome of the
\* round trip.  resp.kind is "transport" (client.Do failed), "garbled" (the
\* body is no JSON envelope) or "envelope" (a decoded APIResponse).
makeRequestResult(resp) ==
    IF resp.kind = "transport"
    THEN Returned(NoData, [kind |-> "transport",
                           text |-> <<"error querying API -> ", resp.cause>>])
    ELSE IF resp.kind = "garbled"
    THEN Returned(NoData, [kind |-> "decode", text |-> <<"invalid character">>])
    ELSE IF resp.status # "success"
    THEN IF Len(resp.errors) > 0
         THEN IF \E i \in 1..Len(resp.errors) : resp.errors[i] = NullMessage
              THEN Panicked
              ELSE Returned(NoData, [kind |-> "api",
                                     text |-> <<"API Error \n">> \o ErrStr(resp.errors, 1)])
         ELSE Returned(NoData, [kind |-> "api", text |-> <<"API error">>])
    ELSE Returned(resp.data, NilErr)

\* json.Unmarshal(result, &hostedZone): (dnsZone, error).  A payload is a
\* zone object, bytes that are no such object, or absent.
UnmarshalZone(data) ==
    IF data.kind = "zone"
    THEN [zone |-> [Name |-> data.name, Records |-> data.records], err |-> NilErr]
    ELSE [zone |-> [Name |-> <<>>, Records |-> <<>>],
          err |-> [kind |-> "unmarshal", text |-> <<"cannot unmarshal">>]]

\* The request makeRequest builds: method, URL, the authToken query
\* parameter, the two headers and the body.
NewRequest(c, method, uri, body) ==
    [method |-> method, url |-> APIURL \o uri, uri |-> uri,
     authToken |-> c.authKey, contentType |-> "application/json", body |-> body]

----------------------------------------------------------------------------
(* The environment: the zone's name, the callers' arguments, the provider *)

\* The hosted zone, e.c, and the zone util.FindZoneByFqdn finds for a name
\* under it, with its trailing dot.
ZoneName == <<"e", ".", "c">>
AuthZone == ZoneName \o <<".">>

\* The challenge host names: _a.e.c. and _a.s.e.c.
Fqdns == { <<"_", "a", ".">> \o AuthZone, <<"_", "a", ".", "s", ".">> \o AuthZone }
Values == {"v1", "v2"}

\* The records a zone may hold before the first call.
StoredRecords ==
    {dnsRecord(<<"_", "a">>, "300", "TXT", "v1"),
     dnsRecord(<<"_", "a">>, "300", "TXT", "v2"),
     dnsRecord(<<"_", "a">>, "300", "CNAME", "v1"),
     dnsRecord(<<"_", "a", ".", "s">>, "300", "TXT", "v1")}

SeqsUpTo(S, n) == UNION {[1..k -> S] : k \in 0..n}

\* The callers; calls in sequence are all made by the first.
Procs == {1, 2}
Caller == 1

\* The provider of the callers, constructed before the first call.
c == NewDNSProviderCredentials("key1", <<"ns1">>).provider

Messages == {[Code |-> 1001, Message |-> "invalid zone"], [Code |-> 0, Message |-> ""]}

\* What a round trip may come to.  ok: the provider does what is asked and
\* answers success; reject: it does nothing and answers a non-success
\* envelope; unreachable: the request never arrives; lost: it does what is
\* asked and the response never arrives; garbled: it does what is asked and
\* the body read is no envelope; badpayload: success with a payload that is
\* no zone.
Outcomes ==
    {[m |-> "ok"], [m |-> "unreachable"], [m |-> "lost"], [m |-> "garbled"],
     [m |-> "badpayload"]}
        \cup {[m |-> "reject", errors |-> e] :
                e \in {<<>>, <<NullMessage>>} \cup {<<x>> : x \in Messages}}

Applied(o) == o.m \in {"ok", "lost", "garbled", "badpayload"}

IsShow(req) == req.uri = "/dns/zones/show"
IsAdd(req) == req.uri = "/dns/zones/records/add"
IsDelete(req) == req.uri = "/dns/zones/records/delete"
Mutating(req) == IsAdd(req) \/ IsDelete(req)

\* The record the provider stores for one JSON record of an add.
Stored(j) ==
    dnsRecord(j.name, IF "ttl" \in DOMAIN j THEN j.ttl ELSE "", j.type, j.data)

\* The zone after the provider did what req asks: an add appends its
\* records, a delete removes every record of the names it lists.
Apply(recs, req) ==
    IF IsAdd(req)
    THEN recs \o [i \in 1..Len(req.body.records) |-> Stored(req.body.records[i])]
    ELSE IF IsDelete(req)
    THEN SelectSeq(recs, LAMBDA r :
            \A i \in 1..Len(req.body.records) : req.body.records[i].name # r.Name)
    ELSE recs

Envelope(status, errors, data) ==
    [kind |-> "envelope", status |-> status, errors |-> errors, data |-> data,
     serverTransactionId |-> "tx"]

\* What client.Do and the decoder hand to makeRequest for an outcome.
Response(o, req, recs) ==
    CASE o.m = "ok" ->
            Envelope("success", <<>>,
                     IF IsShow(req)
                     THEN [kind |-> "zone", name |-> req.body.zone, records |-> recs]
                     ELSE NoData)
      [] o.m = "badpayload" -> Envelope("success", <<>>, [kind |-> "malformed"])
      [] o.m = "reject" -> Envelope("error", o.errors, NoData)
      [] o.m = "garbled" -> [kind |-> "garbled"]
      [] OTHER -> [kind |-> "transport", cause |-> "timeout"]

----------------------------------------------------------------------------
(* Present and CleanUp, one action per stretch between two round trips *)

\* A nil *dnsZone.
NilZone == [ptr |-> "nil"]

\* A caller that is in no call.
Idle ==
    [pc |-> "idle", op |-> "none", fqdn |-> <<>>, value |-> "", zone |-> NilZone,
     recordName |-> <<>>, err |-> NilErr, reqs |-> <<>>, answered |-> 0,
     before |-> <<>>, alone |-> <<>>]

NoPrev == [op |-> "none", fqdn |-> <<>>, value |-> "", ok |-> FALSE, uris |-> <<>>,
           fresh |-> FALSE, before |-> <<>>]

NoHttp == [stage |-> "none"]

Last(s) == s[Len(s)]

\* The call with one more request issued by makeRequest, waiting at pc.
Issue(cl, pc, method, uri, body) ==
    [cl EXCEPT !.pc = pc, !.reqs = Append(@, NewRequest(provider, method, uri, body))]

\* The call returning err (NilErr: success).
Finish(cl, err) == [cl EXCEPT !.pc = "done", !.err = err]

\* The call ended by a panic inside makeRequest.
Crash(cl) == [cl EXCEPT !.pc = "panicked"]

\* The call ended with the program, by the panic of another caller's call.
Kill(cl) == [cl EXCEPT !.pc = "killed"]

\* A delete body that names the record as an add does, with type and ttl.
DeleteBody_Typed(zone, name) ==
    dnsPostRecord(zone.Name, <<dnsRecord(name, Itoa(120 * 60), "TXT", "")>>)

\* A delete body that names the record by its full host name.
DeleteBody_FullName(zone, name) ==
    dnsPostRecord(zone.Name, <<dnsRecord(name \o <<".">> \o zone.Name, "", "", "")>>)

\* The body of the delete request of Present (lines 74-81) and of CleanUp
\* (lines 136-143): the zone and one record that has only its name set.
DeleteBody(zone, name) == dnsPostRecord(zone.Name, <<dnsRecord(name, "", "", "")>>)

\* An add body whose TTL is 120, the minutes taken for seconds.
AddBody_Minutes(zone, name, value) ==
    dnsPostRecord(zone.Name, <<dnsRecord(name, Itoa(120), "TXT", value)>>)

\* The body of the add request of Present (lines 94-105).
AddBody(zone, name, value) ==
    dnsPostRecord(zone.Name, <<dnsRecord(name, Itoa(120 * 60), "TXT", value)>>)

\* A call of the caller is running: entered and not yet returned.
Running(p) == call[p].pc \notin {"idle", "done", "panicked", "killed"}

\* Present(domain, fqdn, value) is entered with an fqdn of F; domain is
\* never read.
PresentCall(p, F) ==
    /\ call[p].pc = "idle"
    /\ \E f \in F, v \in Values :
         call' = [call EXCEPT ![p] =
                    [Idle EXCEPT !.pc = "getHostedZone", !.op = "Present",
                                 !.fqdn = f, !.value = v, !.before = records,
                                 !.alone = records]]
    /\ overlap' = (overlap \/ \E q \in Procs \ {p} : Running(q))
    /\ UNCHANGED <<records, http, prev, provider, arg, ret>>

\* CleanUp(domain, fqdn, value) is entered.
CleanUpCall(p, F) ==
    /\ call[p].pc = "idle"
    /\ \E f \in F, v \in Values :
         call' = [call EXCEPT ![p] =
                    [Idle EXCEPT !.pc = "getHostedZone", !.op = "CleanUp",
                                 !.fqdn = f, !.value = v, !.before = records,
                                 !.alone = records]]
    /\ overlap' = (overlap \/ \E q \in Procs \ {p} : Running(q))
    /\ UNCHANGED <<records, http, prev, provider, arg, ret>>

\* getHostedZone: util.FindZoneByFqdn fails and the call returns its error.
FindZoneFails(p) ==
    /\ call[p].pc = "getHostedZone"
    /\ call' = [call EXCEPT ![p] =
                  Finish(@, [kind |-> "zonelookup", text |-> <<"no zone found">>])]
    /\ UNCHANGED <<records, http, prev, provider, overlap, arg, ret>>

\* getHostedZone: the zone is found and GET /dns/zones/show is issued.
getHostedZoneRequest(p) ==
    /\ call[p].pc = "getHostedZone"
    /\ call' = [call EXCEPT ![p] =
                  Issue(@, "show", "GET", "/dns/zones/show", [zone |-> UnFqdn(AuthZone)])]
    /\ http' = [http EXCEPT ![p] = [stage |-> "sent"]]
    /\ UNCHANGED <<records, prev, provider, overlap, arg, ret>>

\* The round trip of the request in flight, with an outcome of O: the
\* provider and the network.  call[p].alone is the zone as the requests of
\* this call alone, carried out on the zone the call started from, make it.
Serve(p, O) ==
    /\ http[p].stage = "sent"
    /\ LET req == Last(call[p].reqs) IN
       \E o \in O :
         /\ o.m = "badpayload" => IsShow(req)
         /\ Applied(o) /\ IsAdd(req) => Len(records) + Len(req.body.records) <= MaxRecords
         /\ records' = IF Applied(o) THEN Apply(records, req) ELSE records
         /\ call' = [call EXCEPT ![p].alone =
                       IF Applied(o) THEN Apply(@, req) ELSE @]
         /\ http' = [http EXCEPT ![p] =
                       [stage |-> "answered", resp |-> Response(o, req, records)]]
    /\ UNCHANGED <<prev, provider, overlap, arg, ret>>

\* getHostedZone from the return of makeRequest on: (zone, err), or a panic.
getHostedZoneResult(resp) ==
    LET r == makeRequestResult(resp) IN
    IF r.panic THEN [panic |-> TRUE, zone |-> NilZone, err |-> NilErr]
    ELSE IF r.err # NilErr THEN [panic |-> FALSE, zone |-> NilZone, err |-> r.err]
    ELSE IF UnmarshalZone(r.data).err # NilErr
    THEN [panic |-> FALSE, zone |-> NilZone, err |-> UnmarshalZone(r.data).err]
    ELSE [panic |-> FALSE, zone |-> UnmarshalZone(r.data).zone, err |-> NilErr]

\* Present without the comparison of record.Data with value: a record
\* found is always deleted and created again.
PresentAfterShow_AlwaysReplace(cl, resp) ==
    LET hz == getHostedZoneResult(resp)
        found == findTxtRecord(hz.zone, cl.fqdn)
        recordName == RecordName(cl.fqdn, hz.zone.Name)
        seen == [cl EXCEPT !.zone = hz.zone, !.recordName = recordName]
    IN  IF hz.panic THEN Crash(cl)
        ELSE IF hz.err # NilErr THEN Finish(cl, hz.err)
        ELSE IF found.err # NilErr /\ found.err # errNoExistingRecord
        THEN Finish(seen, found.err)
        ELSE IF found.record # NilRecord
        THEN Issue(seen, "delete", "DELETE", "/dns/zones/records/delete",
                   DeleteBody(hz.zone, recordName))
        ELSE Issue(seen, "add", "POST", "/dns/zones/records/add",
                   AddBody(hz.zone, recordName, cl.value))

\* Present without the delete of a record found with other data.
PresentAfterShow_NoDelete(cl, resp) ==
    LET hz == getHostedZoneResult(resp)
        found == findTxtRecord(hz.zone, cl.fqdn)
        recordName == RecordName(cl.fqdn, hz.zone.Name)
        seen == [cl EXCEPT !.zone = hz.zone, !.recordName = recordName]
    IN  IF hz.panic THEN Crash(cl)
        ELSE IF hz.err # NilErr THEN Finish(cl, hz.err)
        ELSE IF found.err # NilErr /\ found.err # errNoExistingRecord
        THEN Finish(seen, found.err)
        ELSE IF found.record # NilRecord /\ found.record.Data = cl.value
        THEN Finish(seen, NilErr)
        ELSE Issue(seen, "add", "POST", "/dns/zones/records/add",
                   AddBody(hz.zone, recordName, cl.value))

\* Present going on to its add request when getHostedZone returned an
\* error, the zone taken as empty and named as asked for.
PresentAfterShow_Unchecked(cl, resp) ==
    LET hz == getHostedZoneResult(resp)
        found == findTxtRecord(hz.zone, cl.fqdn)
        recordName == RecordName(cl.fqdn, hz.zone.Name)
        seen == [cl EXCEPT !.zone = hz.zone, !.recordName = recordName]
    IN  IF hz.panic THEN Crash(cl)
        ELSE IF hz.err # NilErr
        THEN Issue(cl, "add", "POST", "/dns/zones/records/add",
                   AddBody([Name |-> UnFqdn(AuthZone)],
                           RecordName(cl.fqdn, UnFqdn(AuthZone)), cl.value))
        ELSE IF found.err # NilErr /\ found.err # errNoExistingRecord
        THEN Finish(seen, found.err)
        ELSE IF found.record # NilRecord
        THEN IF found.record.Data = cl.value
             THEN Finish(seen, NilErr)
             ELSE Issue(seen, "delete", "DELETE", "/dns/zones/records/delete",
                        DeleteBody(hz.zone, recordName))
        ELSE Issue(seen, "add", "POST", "/dns/zones/records/add",
                   AddBody(hz.zone, recordName, cl.value))

\* Present from the return of getHostedZone to its next request or return
\* (lines 55-112).
PresentAfterShow(cl, resp) ==
    LET hz == getHostedZoneResult(resp)
        found == findTxtRecord(hz.zone, cl.fqdn)
        recordName == RecordName(cl.fqdn, hz.zone.Name)
        seen == [cl EXCEPT !.zone = hz.zone, !.recordName = recordName]
    IN  IF hz.panic THEN Crash(cl)
        ELSE IF hz.err # NilErr THEN Finish(cl, hz.err)
        ELSE IF found.err # NilErr /\ found.err # errNoExistingRecord
        THEN Finish(seen, found.err)
        ELSE IF found.record # NilRecord
        THEN IF found.record.Data = cl.value
             THEN Finish(seen, NilErr)
             ELSE Issue(seen, "delete", "DELETE", "/dns/zones/records/delete",
                        DeleteBody(hz.zone, recordName))
        ELSE Issue(seen, "add", "POST", "/dns/zones/records/add",
                   AddBody(hz.zone, recordName, cl.value))

\* Present from the return of its delete request on (lines 88-112).
PresentAfterDelete(cl, resp) ==
    LET r == makeRequestResult(resp) IN
    IF r.panic THEN Crash(cl)
    ELSE IF r.err # NilErr THEN Finish(cl, r.err)
    ELSE Issue(cl, "add", "POST", "/dns/zones/records/add",
               AddBody(cl.zone, cl.recordName, cl.value))

\* Present issuing its add request again when it failed.
PresentAfterAdd_Retry(cl, resp) ==
    LET r == makeRequestResult(resp) IN
    IF r.panic THEN Crash(cl)
    ELSE IF r.err # NilErr
    THEN Issue(cl, "add", "POST", "/dns/zones/records/add",
               AddBody(cl.zone, cl.recordName, cl.value))
    ELSE Finish(cl, NilErr)

\* Present returning success whatever its add request came to.
PresentAfterAdd_IgnoreError(cl, resp) ==
    LET r == makeRequestResult(resp) IN
    IF r.panic THEN Crash(cl)
    ELSE Finish(cl, NilErr)

\* Present from the return of its add request on (lines 112-117).
PresentAfterAdd(cl, resp) ==
    LET r == makeRequestResult(resp) IN
    IF r.panic THEN Crash(cl)
    ELSE IF r.err # NilErr THEN Finish(cl, r.err)
    ELSE Finish(cl, NilErr)

\* CleanUp returning every error of findTxtRecord, errNoExistingRecord too.
CleanUpAfterShow_NoTolerance(cl, resp) ==
    LET hz == getHostedZoneResult(resp)
        found == findTxtRecord(hz.zone, cl.fqdn)
        seen == [cl EXCEPT !.zone = hz.zone,
                           !.recordName = RecordName(cl.fqdn, hz.zone.Name)]
    IN  IF hz.panic THEN Crash(cl)
        ELSE IF hz.err # NilErr THEN Finish(cl, hz.err)
        ELSE IF found.err # NilErr THEN Finish(seen, found.err)
        ELSE Issue(seen, "delete", "DELETE", "/dns/zones/records/delete",
                   DeleteBody(hz.zone, RecordName(cl.fqdn, hz.zone.Name)))

\* CleanUp deleting only a record whose data is the value argument.
CleanUpAfterShow_MatchValue(cl, resp) ==
    LET hz == getHostedZoneResult(resp)
        found == findTxtRecord(hz.zone, cl.fqdn)
        seen == [cl EXCEPT !.zone = hz.zone,
                           !.recordName = RecordName(cl.fqdn, hz.zone.Name)]
    IN  IF hz.panic THEN Crash(cl)
        ELSE IF hz.err # NilErr THEN Finish(cl, hz.err)
        ELSE IF found.err = errNoExistingRecord THEN Finish(seen, NilErr)
        ELSE IF found.err # NilErr THEN Finish(seen, found.err)
        ELSE IF found.record.Data # cl.value THEN Finish(seen, NilErr)
        ELSE Issue(seen, "delete", "DELETE", "/dns/zones/records/delete",
                   DeleteBody(hz.zone, RecordName(cl.fqdn, hz.zone.Name)))

\* CleanUp from the return of getHostedZone on (lines 122-150).
CleanUpAfterShow(cl, resp) ==
    LET hz == getHostedZoneResult(resp)
        found == findTxtRecord(hz.zone, cl.fqdn)
        seen == [cl EXCEPT !.zone = hz.zone,
                           !.recordName = RecordName(cl.fqdn, hz.zone.Name)]
    IN  IF hz.panic THEN Crash(cl)
        ELSE IF hz.err # NilErr THEN Finish(cl, hz.err)
        ELSE IF found.err = errNoExistingRecord THEN Finish(seen, NilErr)
        ELSE IF found.err # NilErr THEN Finish(seen, found.err)
        ELSE Issue(seen, "delete", "DELETE", "/dns/zones/records/delete",
                   DeleteBody(hz.zone, RecordName(cl.fqdn, hz.zone.Name)))

\* CleanUp from the return of its delete request on (lines 150-155).
CleanUpAfterDelete(cl, resp) ==
    LET r == makeRequestResult(resp) IN
    IF r.panic THEN Crash(cl)
    ELSE IF r.err # NilErr THEN Finish(cl, r.err)
    ELSE Finish(cl, NilErr)

\* The caller's call after the response in flight reached it.
Resume(cl, resp) ==
    CASE cl.op = "Present" /\ cl.pc = "show" -> PresentAfterShow(cl, resp)
      [] cl.op = "Present" /\ cl.pc = "delete" -> PresentAfterDelete(cl, resp)
      [] cl.op = "Present" /\ cl.pc = "add" -> PresentAfterAdd(cl, resp)
      [] cl.op = "CleanUp" /\ cl.pc = "show" -> CleanUpAfterShow(cl, resp)
      [] cl.op = "CleanUp" /\ cl.pc = "delete" -> CleanUpAfterDelete(cl, resp)

\* The calls after the response in flight reached the caller p.  A panic
\* of its call that nothing recovers ends the program, and with it the
\* calls the other callers are in; recovered is whether the caller of p
\* recovers it.
AfterResponse(p, recovered) ==
    LET next == Resume([call[p] EXCEPT !.answered = @ + 1], http[p].resp)
        other == CHOOSE q \in Procs : q # p
    IN  [call EXCEPT ![p] = next,
                     ![other] = IF next.pc = "panicked" /\ ~recovered /\ Running(other)
                                THEN Kill(@) ELSE @]

\* makeRequest returns to Present, which runs on to its next request, its
\* return or a panic.
PresentStep(p) ==
    /\ http[p].stage = "answered"
    /\ call[p].op = "Present"
    /\ Running(p)
    /\ \E recovered \in BOOLEAN : call' = AfterResponse(p, recovered)
    /\ http' = [http EXCEPT ![p] =
                  IF Len(call'[p].reqs) > Len(call[p].reqs)
                  THEN [stage |-> "sent"] ELSE NoHttp]
    /\ UNCHANGED <<records, prev, provider, overlap, arg, ret>>

\* makeRequest returns to CleanUp.
CleanUpStep(p) ==
    /\ http[p].stage = "answered"
    /\ call[p].op = "CleanUp"
    /\ Running(p)
    /\ \E recovered \in BOOLEAN : call' = AfterResponse(p, recovered)
    /\ http' = [http EXCEPT ![p] =
                  IF Len(call'[p].reqs) > Len(call[p].reqs)
                  THEN [stage |-> "sent"] ELSE NoHttp]
    /\ UNCHANGED <<records, prev, provider, overlap, arg, ret>>

Uris(reqs) == [i \in 1..Len(reqs) |-> reqs[i].uri]

HasNamed(recs, name) == \E i \in 1..Len(recs) : recs[i].Name = name

\* What is kept of a call once it returned.
Summary(cl) ==
    [op |-> cl.op, fqdn |-> cl.fqdn, value |-> cl.value, ok |-> cl.err = NilErr,
     uris |-> Uris(cl.reqs),
     fresh |-> ~HasNamed(cl.before, RecordName(cl.fqdn, ZoneName)),
     before |-> cl.before]

\* The call has returned to its caller, who may call again.
Return(p) ==
    /\ call[p].pc = "done"
    /\ prev' = [prev EXCEPT ![p] = Summary(call[p])]
    /\ call' = [call EXCEPT ![p] = Idle]
    /\ UNCHANGED <<records, http, provider, overlap, arg, ret>>

----------------------------------------------------------------------------
(* Calls made one after the other by one caller, nobody else changing the  *)
(* zone.                                                                   *)

None == [kind |-> "none"]

Init ==
    /\ records \in SeqsUpTo(StoredRecords, MaxRecords)
    /\ call = [p \in Procs |-> Idle]
    /\ http = [p \in Procs |-> NoHttp]
    /\ prev = [p \in Procs |-> NoPrev]
    /\ provider = c
    /\ overlap = FALSE
    /\ arg = None
    /\ ret = None

Next ==
    \/ PresentCall(Caller, Fqdns)
    \/ CleanUpCall(Caller, Fqdns)
    \/ FindZoneFails(Caller)
    \/ getHostedZoneRequest(Caller)
    \/ Serve(Caller, Outcomes)
    \/ PresentStep(Caller)
    \/ CleanUpStep(Caller)
    \/ Return(Caller)

Spec == Init /\ [][Next]_vars

----------------------------------------------------------------------------
(* The constructors applied on their own *)

Keys == {"", "key1", "key2"}
Envs == {Unset} \cup {[set |-> TRUE, value |-> k] : k \in Keys}
NameserverLists == SeqsUpTo({"ns1", "ns2"}, MaxNameservers)

InitNew ==
    /\ records = <<>>
    /\ call = [p \in Procs |-> Idle]
    /\ http = [p \in Procs |-> NoHttp]
    /\ prev = [p \in Procs |-> NoPrev]
    /\ provider = c
    /\ overlap = FALSE
    /\ arg \in [kind : {"new"}, key : Keys, dns01Nameservers : NameserverLists,
                env : Envs]
    /\ ret = None

\* NewDNSProviderCredentials(key, dns01Nameservers) is called.
NewDNSProviderCredentialsCall ==
    /\ arg.kind = "new"
    /\ ret = None
    /\ ret' = [kind |-> "NewDNSProviderCredentials",
               out |-> NewDNSProviderCredentials(arg.key, arg.dns01Nameservers)]
    /\ UNCHANGED <<records, call, http, prev, provider, overlap, arg>>

\* NewDNSProvider(dns01Nameservers) is called in the environment env.
NewDNSProviderCall ==
    /\ arg.kind = "new"
    /\ ret = None
    /\ ret' = [kind |-> "NewDNSProvider",
               out |-> NewDNSProvider(arg.env, arg.dns01Nameservers)]
    /\ UNCHANGED <<records, call, http, prev, provider, overlap, arg>>

NextNew == NewDNSProviderCredentialsCall \/ NewDNSProviderCall

SpecNew == InitNew /\ [][NextNew]_vars

----------------------------------------------------------------------------
(* makeRequest applied on its own to what a round trip may hand it *)

Statuses == {"success", "error", ""}
Payloads == {NoData, [kind |-> "malformed"],
             [kind |-> "zone", name |-> ZoneName, records |-> <<>>]}

RoundTrips ==
    {[kind |-> "transport", cause |-> "timeout"], [kind |-> "garbled"]}
        \cup {Envelope(st, e, d) :
                st \in Statuses,
                e \in SeqsUpTo(Messages \cup {NullMessage}, MaxErrors),
                d \in Payloads}

InitReq ==
    /\ records = <<>>
    /\ call = [p \in Procs |-> Idle]
    /\ http = [p \in Procs |-> NoHttp]
    /\ prev = [p \in Procs |-> NoPrev]
    /\ provider = c
    /\ overlap = FALSE
    /\ arg \in RoundTrips
    /\ ret = None

\* makeRequest returns, or panics, after the round trip arg.
makeRequestReturn ==
    /\ arg \in RoundTrips
    /\ ret = None
    /\ ret' = makeRequestResult(arg)
    /\ UNCHANGED <<records, call, http, prev, provider, overlap, arg>>

NextReq == makeRequestReturn

SpecReq == InitReq /\ [][NextReq]_vars

----------------------------------------------------------------------------
(* Properties *)

ShowUri == "/dns/zones/show"
AddUri == "/dns/zones/records/add"
DeleteUri == "/dns/zones/records/delete"

NumberOf(uris, u) == Cardinality({i \in 1..Len(uris) : uris[i] = u})
NumberMutating(uris) == NumberOf(uris, AddUri) + NumberOf(uris, DeleteUri)

\* The caller's call has returned and its previous call was a Present of
\* the same name and value on a zone that held no record of that name.
SecondPresent(p) ==
    /\ call[p].pc = "done" /\ call[p].op = "Present"
    /\ prev[p].op = "Present" /\ prev[p].fresh
    /\ prev[p].fqdn = call[p].fqdn /\ prev[p].value = call[p].value

OneCreateOverall(p) ==
    /\ NumberOf(prev[p].uris, AddUri) + NumberOf(Uris(call[p].reqs), AddUri) = 1
    /\ NumberMutating(Uris(call[p].reqs)) = 0
    /\ call[p].err = NilErr

\* C1 as stated: two Present calls in sequence with the same arguments, from
\* a zone with no record of the name, make one create request overall, and
\* the second makes no mutating request and returns success.
C1_PresentTwice == \A p \in Procs : SecondPresent(p) => OneCreateOverall(p)

\* C1 as amended: the same, when the first call returned success and the
\* second call's zone lookup and show request succeeded.
C1_PresentTwiceAfterSuccess ==
    \A p \in Procs :
        SecondPresent(p) /\ prev[p].ok /\ call[p].zone # NilZone => OneCreateOverall(p)

C1_Witness ==
    /\ SecondPresent(Caller) /\ prev[Caller].ok /\ call[Caller].zone # NilZone
    /\ prev[Caller].uris = <<ShowUri, AddUri>>
    /\ Uris(call[Caller].reqs) = <<ShowUri>>

\* A Present that returned success, every request of it having succeeded.
PresentSucceeded(p) ==
    call[p].pc = "done" /\ call[p].op = "Present" /\ call[p].err = NilErr

\* The snapshot holds a record of the derived name with other data.
HasStale(cl) ==
    \E i \in 1..Len(cl.zone.Records) :
        cl.zone.Records[i].Name = cl.recordName /\ cl.zone.Records[i].Data # cl.value

\* The first record of the derived name in the snapshot has other data.
FirstIsStale(cl) ==
    \E i \in 1..Len(cl.zone.Records) :
        /\ cl.zone.Records[i].Name = cl.recordName
        /\ cl.zone.Records[i].Data # cl.value
        /\ \A j \in 1..(i - 1) : cl.zone.Records[j].Name # cl.recordName

\* One request at most is unanswered, and it is the last one issued.
OneAtATime(cl) == Len(cl.reqs) - cl.answered \in {0, 1}

\* C2 as stated: a Present whose snapshot holds a record of the derived name
\* with other data, all requests succeeding, issues show, one delete, one
\* create, in that order, each answered before the next.
C2_Replace ==
    \A p \in Procs :
        PresentSucceeded(p) /\ HasStale(call[p])
            => Uris(call[p].reqs) = <<ShowUri, DeleteUri, AddUri>>

\* C2 as amended: the same when the first record of the derived name in the
\* snapshot has other data; and no request is issued before the one before
\* it was answered.
C2_ReplaceFirstMatch ==
    \A p \in Procs :
        /\ PresentSucceeded(p) /\ FirstIsStale(call[p])
            => Uris(call[p].reqs) = <<ShowUri, DeleteUri, AddUri>>
        /\ call[p].op = "Present" => OneAtATime(call[p])

C2_Witness ==
    /\ PresentSucceeded(Caller) /\ FirstIsStale(call[Caller])
    /\ Uris(call[Caller].reqs) = <<ShowUri, DeleteUri, AddUri>>
    /\ call[Caller].answered = 3

\* The snapshot holds no record of the derived name.
NoneNamed(cl) == ~HasNamed(cl.zone.Records, cl.recordName)

\* C3: a CleanUp whose snapshot holds no record of the derived name returns
\* success without a mutating request; so does a CleanUp that follows a
\* successful CleanUp of the same name and fetches its snapshot.
C3_CleanUpIdempotent ==
    \A p \in Procs :
        call[p].op = "CleanUp" /\ call[p].pc \in {"done", "delete"}
                               /\ call[p].zone # NilZone =>
            /\ NoneNamed(call[p]) =>
                /\ call[p].pc = "done" /\ call[p].err = NilErr
                /\ NumberMutating(Uris(call[p].reqs)) = 0
            /\ prev[p].op = "CleanUp" /\ prev[p].ok /\ prev[p].fqdn = call[p].fqdn
                => NoneNamed(call[p])

C3_Witness ==
    /\ call[Caller].op = "CleanUp" /\ call[Caller].pc = "done"
    /\ call[Caller].zone # NilZone /\ NoneNamed(call[Caller])
    /\ prev[Caller].op = "CleanUp" /\ prev[Caller].ok
    /\ prev[Caller].fqdn = call[Caller].fqdn
    /\ prev[Caller].uris = <<ShowUri, DeleteUri>>

\* C4: a Present whose snapshot holds no record of the derived name, all
\* requests succeeding, issues GET show, then POST add with the zone name
\* and the one record {name, type "TXT", data, ttl "7200"}, and nothing else.
C4_CreatePath ==
    \A p \in Procs :
        PresentSucceeded(p) /\ NoneNamed(call[p]) =>
            /\ Len(call[p].reqs) = 2
            /\ call[p].reqs[1].method = "GET" /\ call[p].reqs[1].uri = ShowUri
            /\ call[p].reqs[2].method = "POST" /\ call[p].reqs[2].uri = AddUri
            /\ call[p].reqs[2].body =
                 [zone |-> ZoneName,
                  records |-> << [name |-> RecordName(call[p].fqdn, ZoneName),
                                  type |-> "TXT", data |-> call[p].value,
                                  ttl |-> "7200"] >>]

C4_Witness ==
    /\ PresentSucceeded(Caller) /\ NoneNamed(call[Caller])
    /\ call[Caller].fqdn = <<"_", "a", ".", "e", ".", "c", ".">>
    /\ call[Caller].reqs[2].body.records[1].name = <<"_", "a">>
    /\ call[Caller].reqs[2].body.records[1].ttl = "7200"


DeleteRequests(cl) == {i \in 1..Len(cl.reqs) : cl.reqs[i].uri = DeleteUri}

C6_AtMostTwo ==
    \A p \in Procs : Len(call[p].reqs) <= 2 /\ OneAtATime(call[p])

\* C6 as amended: Present issues at most three requests (show, delete, add),
\* CleanUp at most two (show, delete), one at a time.
C6_AtMostThree ==
    \A p \in Procs :
        /\ call[p].op = "Present" => Len(call[p].reqs) <= 3
        /\ call[p].op = "CleanUp" => Len(call[p].reqs) <= 2
        /\ Len(prev[p].uris) <= (IF prev[p].op = "Present" THEN 3 ELSE 2)
        /\ OneAtATime(call[p])

C6_Witness ==
    /\ call[Caller].op = "Present" /\ Len(call[Caller].reqs) = 3
    /\ call[Caller].answered = 2 /\ http[Caller].stage = "sent"
    /\ prev[Caller].op = "CleanUp" /\ Len(prev[Caller].uris) = 2

\* The call returned an error and the zone is not what it was at its start.
FailedAndMutated(p) ==
    call[p].pc = "done" /\ call[p].err # NilErr /\ records # call[p].before

\* Present's failed create after its delete.
CreateFailedAfterDelete(cl) ==
    cl.op = "Present" /\ Uris(cl.reqs) = <<ShowUri, DeleteUri, AddUri>>

\* C7 as stated: a call that returns an error has left the zone as it was,
\* unless it is a Present whose create failed after its delete.
C7_NoPartialSuccess ==
    \A p \in Procs : FailedAndMutated(p) => CreateFailedAfterDelete(call[p])

\* C7 as amended: ... or unless the error is the transport or envelope
\* decoding error of a delete or add request, which the provider may have
\* carried out before the response was lost or unreadable.
C7_NoPartialSuccessButLostResponse ==
    \A p \in Procs :
        FailedAndMutated(p) =>
            \/ CreateFailedAfterDelete(call[p])
            \/ /\ Len(call[p].reqs) > 0
               /\ Last(call[p].reqs).uri \in {AddUri, DeleteUri}
               /\ call[p].err.kind \in {"transport", "decode"}

C7_Witness ==
    /\ call[Caller].pc = "done" /\ call[Caller].op = "Present"
    /\ call[Caller].err.kind = "api"
    /\ Uris(call[Caller].reqs) = <<ShowUri, AddUri>>
    /\ records = call[Caller].before

\* The round trip gave makeRequest no success envelope, or gave
\* getHostedZone a payload that is no zone.
FailedStep(cl, resp) ==
    \/ resp.kind # "envelope"
    \/ resp.kind = "envelope" /\ resp.status # "success"
    \/ resp.kind = "envelope" /\ cl.pc = "show" /\ resp.data.kind # "zone"

\* The requests of a call are show, delete, add, each at most once and in
\* that order.
NoRepeat(uris) ==
    uris \in {<<>>, <<ShowUri>>, <<ShowUri, DeleteUri>>, <<ShowUri, AddUri>>,
              <<ShowUri, DeleteUri, AddUri>>}

\* C8: each request is issued at most once; a failed zone lookup leaves no
\* request; and the step after a failed round trip is the return of an
\* error, no request being issued.
C8_FailFast ==
    /\ [](\A p \in Procs :
            /\ NoRepeat(Uris(call[p].reqs))
            /\ call[p].pc = "done" /\ call[p].err.kind = "zonelookup"
                => call[p].reqs = <<>>)
    /\ [][\A p \in Procs :
            /\ http[p].stage = "answered"
            /\ FailedStep(call[p], http[p].resp)
            /\ call'[p] # call[p]
            => /\ call'[p].pc = "done"
               /\ call'[p].err # NilErr
               /\ call'[p].reqs = call[p].reqs]_vars

RECURSIVE ContainsInOrder(_, _)
\* The tokens toks occur in text, in that order.
ContainsInOrder(text, toks) ==
    IF toks = <<>> THEN TRUE
    ELSE IF text = <<>> THEN FALSE
    ELSE IF Head(text) = Head(toks) THEN ContainsInOrder(Tail(text), Tail(toks))
    ELSE ContainsInOrder(Tail(text), toks)

RECURSIVE CodesAndMessages(_)
\* The code, in decimal, and the message of every entry that has them.
CodesAndMessages(errors) ==
    IF errors = <<>> THEN <<>>
    ELSE IF Head(errors) = NullMessage THEN CodesAndMessages(Tail(errors))
    ELSE <<Itoa(Head(errors).Code), Head(errors).Message>>
            \o CodesAndMessages(Tail(errors))

\* C9: for a decoded envelope makeRequest returns the payload and no error
\* when status is "success", and otherwise no payload and an error whose
\* text holds the code and message of every entry of messages.errors in
\* order, "API error" when there is none.
C9_EnvelopeMapping ==
    ret # None /\ arg.kind = "envelope" =>
        IF arg.status = "success"
        THEN ret = [panic |-> FALSE, data |-> arg.data, err |-> NilErr]
        ELSE /\ ~ret.panic
             /\ ret.data = NoData
             /\ ret.err # NilErr
             /\ ContainsInOrder(ret.err.text, CodesAndMessages(arg.errors))
             /\ arg.errors = <<>> => ret.err.text = <<"API error">>

\* The key a constructor call works with.
KeyGiven == IF ret.kind = "NewDNSProvider"
            THEN (IF arg.env = Unset THEN "" ELSE arg.env.value)
            ELSE arg.key

\* C10: an empty key, given or read from LUMASERV_API_KEY (unset reads as
\* empty), gives the error "credentials missing" and no provider; any other
\* key gives a provider holding that key and the nameserver list, no error.
C10_Construction ==
    ret # None /\ arg.kind = "new" =>
        IF KeyGiven = ""
        THEN ret.out = [provider |-> [ptr |-> "nil"],
                        err |-> [kind |-> "errorf", text |-> <<"credentials missing">>]]
        ELSE ret.out = [provider |-> [authKey |-> KeyGiven,
                                      dns01Nameservers |-> arg.dns01Nameservers],
                        err |-> NilErr]

C10_Witness ==
    /\ ret # None /\ arg.kind = "new"
    /\ ret.kind = "NewDNSProvider"
    /\ arg.env = [set |-> TRUE, value |-> "key2"] /\ arg.key = ""
    /\ arg.dns01Nameservers = <<"ns2", "ns1">>
    /\ ret.out.err = NilErr /\ ret.out.provider.authKey = "key2"

----------------------------------------------------------------------------
(* C13: the derived record name *)

\* The requests of the call that change the zone.
MutatingRequests(cl) == {i \in 1..Len(cl.reqs) : Mutating(cl.reqs[i])}

\* The call found, in its snapshot, a record of the name it derived.
FoundInSnapshot(cl) == HasNamed(cl.zone.Records, cl.recordName)

\* C13: in every call that fetched a snapshot, the derived name followed by
\* "." and the snapshot's zone name and the trailing dot is the fqdn again;
\* every delete and add request of the call names exactly that record in
\* that zone; and the lookup used the same name: a delete is issued only
\* when the snapshot holds a record of that name, Present goes straight to
\* its add and CleanUp returns without a request only when it holds none.
C13_NameDerivation ==
    \A p \in Procs :
        LET cl == call[p] IN
        cl.zone # NilZone =>
            /\ cl.recordName \o <<".">> \o cl.zone.Name \o <<".">> = cl.fqdn
            /\ \A i \in MutatingRequests(cl) :
                 /\ cl.reqs[i].body.zone = cl.zone.Name
                 /\ Len(cl.reqs[i].body.records) = 1
                 /\ cl.reqs[i].body.records[1].name = cl.recordName
            /\ (\E i \in 1..Len(cl.reqs) : IsDelete(cl.reqs[i])) => FoundInSnapshot(cl)
            /\ Len(cl.reqs) >= 2 /\ IsAdd(cl.reqs[2]) => ~FoundInSnapshot(cl)
            /\ cl.op = "CleanUp" /\ cl.pc = "done" /\ Len(cl.reqs) = 1
                 => ~FoundInSnapshot(cl)

\* A Present that looked the name up, deleted the record and created it.
C13_Witness ==
    LET cl == call[Caller] IN
    /\ cl.op = "Present" /\ cl.pc = "done" /\ cl.err = NilErr
    /\ cl.recordName = <<"_", "a", ".", "s">>
    /\ Uris(cl.reqs) = <<"/dns/zones/show", "/dns/zones/records/delete",
                         "/dns/zones/records/add">>

----------------------------------------------------------------------------
(* C14: when Present returns success *)

\* The step in which the caller's Present returns nil.
PresentReturnsSuccess(p) ==
    /\ call[p].op = "Present"
    /\ call[p].pc # "done"
    /\ call'[p].pc = "done"
    /\ call'[p].err = NilErr

\* The response that has reached the caller answers an add request of its
\* call with an envelope whose status is "success".
CreateAnsweredSuccess(p) ==
    /\ call[p].pc = "add"
    /\ IsAdd(Last(call[p].reqs))
    /\ http[p].stage = "answered"
    /\ http[p].resp.kind = "envelope"
    /\ http[p].resp.status = "success"

\* The snapshot the call has just fetched holds a record of the derived
\* name whose data is the value argument, and the call made no request but
\* the show.
ValueInSnapshot(p) ==
    /\ call[p].pc = "show"
    /\ call'[p].zone # NilZone
    /\ call'[p].reqs = call[p].reqs
    /\ \E i \in 1..Len(call'[p].zone.Records) :
         /\ call'[p].zone.Records[i].Name = call'[p].recordName
         /\ call'[p].zone.Records[i].Data = call'[p].value

\* C14: every step in which Present returns success is either the step
\* that takes the "success" envelope answering the call's own add request,
\* so after that response, or the step after the show in which the
\* snapshot holds a record of the derived name with data equal to value.
C14_SuccessOnlyIf ==
    [][\A p \in Procs :
         PresentReturnsSuccess(p) => CreateAnsweredSuccess(p) \/ ValueInSnapshot(p)]_vars

\* A Present that succeeded on its add, after one that succeeded on the
\* snapshot alone.
C14_Witness ==
    /\ prev[Caller].op = "Present" /\ prev[Caller].ok
    /\ prev[Caller].uris = <<"/dns/zones/show">>
    /\ call[Caller].op = "Present" /\ call[Caller].pc = "done"
    /\ call[Caller].err = NilErr
    /\ Len(call[Caller].reqs) >= 2 /\ IsAdd(Last(call[Caller].reqs))

----------------------------------------------------------------------------
(* C15: CleanUp is keyed by the name alone *)

----------------------------------------------------------------------------
(* findTxtRecord on its own: one call on a snapshot and an fqdn *)

\* The zone names a snapshot may carry: e.c and s.e.c.
SnapshotNames == {ZoneName, <<"s", ".">> \o ZoneName}

Snapshots ==
    {[Name |-> n, Records |-> r] :
        n \in SnapshotNames, r \in SeqsUpTo(StoredRecords, MaxRecords)}

InitFind ==
    /\ records = <<>>
    /\ call = [p \in Procs |-> Idle]
    /\ http = [p \in Procs |-> NoHttp]
    /\ prev = [p \in Procs |-> NoPrev]
    /\ provider = c
    /\ overlap = FALSE
    /\ arg \in {[kind |-> "find", zone |-> z, fqdn |-> f] : z \in Snapshots, f \in Fqdns}
    /\ ret = None

\* findTxtRecord(zone, fqdn) returns.
findTxtRecordCall ==
    /\ arg.kind = "find"
    /\ ret = None
    /\ ret' = [kind |-> "find", out |-> findTxtRecord(arg.zone, arg.fqdn)]
    /\ UNCHANGED <<records, call, http, prev, provider, overlap, arg>>

NextFind == findTxtRecordCall

SpecFind == InitFind /\ [][NextFind]_vars

\* The positions of the snapshot's records named as the fqdn derives.
Matches(zone, fqdn) ==
    {i \in 1..Len(zone.Records) : zone.Records[i].Name = RecordName(fqdn, zone.Name)}

\* C16: findTxtRecord returns the record at the least position of the
\* snapshot whose name is the derived name, whatever its type, and no
\* error; it returns errNoExistingRecord exactly when no record has that
\* name, and then no record: never a record together with an error.
C16_Lookup ==
    ret # None /\ arg.kind = "find" =>
        LET m == Matches(arg.zone, arg.fqdn) IN
        /\ (ret.out.err = errNoExistingRecord) <=> (m = {})
        /\ m = {} => ret.out.record = NilRecord
        /\ m # {} =>
             /\ ret.out.err = NilErr
             /\ \E i \in m :
                  /\ \A k \in m : i <= k
                  /\ ret.out.record = arg.zone.Records[i]
        /\ (ret.out.record = NilRecord) # (ret.out.err = NilErr)

\* A CNAME record returned because it comes before a TXT record of the
\* same name.
C16_Witness ==
    /\ ret # None /\ arg.kind = "find"
    /\ Len(arg.zone.Records) = 2
    /\ arg.zone.Records[1].Name = arg.zone.Records[2].Name
    /\ arg.zone.Records[1].Type = "CNAME"
    /\ arg.zone.Records[2].Type = "TXT"
    /\ ret.out.record = arg.zone.Records[1]

----------------------------------------------------------------------------
(* C17: the snapshot is fetched first and afresh *)

\* The response that has reached the caller answers its show request with
\* a "success" envelope.
ShowAnsweredSuccess(p) ==
    /\ http[p].stage = "answered"
    /\ http[p].resp.kind = "envelope"
    /\ http[p].resp.status = "success"

\* The caller issues a request in this step.
IssuesRequest(p) == Len(call'[p].reqs) > Len(call[p].reqs)

\* C17: a call that issued a request issued GET /dns/zones/show first and
\* once; a caller in no call holds no snapshot and the snapshot a call
\* holds is the zone as it was when that call was entered, not an earlier
\* one; a call whose zone lookup failed issued nothing.  The show is issued
\* from the zone lookup, as the first request; every delete and add is
\* issued with a response received, that response being, for the first of
\* them, the "success" envelope of the show.
C17_FreshSnapshotFirst ==
    /\ [](\A p \in Procs :
            LET cl == call[p] IN
            /\ cl.reqs # <<>> =>
                 /\ cl.reqs[1].method = "GET" /\ IsShow(cl.reqs[1])
                 /\ NumberOf(Uris(cl.reqs), ShowUri) = 1
            /\ cl.pc \in {"idle", "getHostedZone"} => cl.zone = NilZone /\ cl.reqs = <<>>
            /\ cl.zone # NilZone => cl.zone.Records = cl.before /\ cl.answered >= 1
            /\ MutatingRequests(cl) # {} => cl.zone # NilZone
            /\ cl.pc = "done" /\ cl.err.kind = "zonelookup" => cl.reqs = <<>>)
    /\ [][\A p \in Procs :
            IssuesRequest(p) =>
                IF IsShow(Last(call'[p].reqs))
                THEN call[p].pc = "getHostedZone" /\ call[p].reqs = <<>>
                ELSE /\ http[p].stage = "answered"
                     /\ call[p].reqs # <<>> /\ IsShow(call[p].reqs[1])
                     /\ call'[p].answered >= 1
                     /\ call[p].pc = "show" => ShowAnsweredSuccess(p)]_vars

\* A call that changed the zone on a snapshot other than the one the call
\* before it had.
C17_Witness ==
    LET cl == call[Caller] IN
    /\ prev[Caller].op # "none" /\ prev[Caller].uris # <<>>
    /\ cl.pc = "done" /\ cl.zone # NilZone
    /\ MutatingRequests(cl) # {}
    /\ cl.zone.Records # prev[Caller].before

----------------------------------------------------------------------------
(* C18: what a successful Present leaves in the zone *)

\* The zone holds a TXT record of the call's derived name with its value.
Published(cl) ==
    \E i \in 1..Len(records) :
        /\ records[i].Name = RecordName(cl.fqdn, ZoneName)
        /\ records[i].Type = "TXT"
        /\ records[i].Data = cl.value

\* C18: whenever Present has returned success, nobody but the call having
\* changed the zone, the zone holds a record of the derived name with type
\* "TXT" and data equal to the value argument, whatever records the zone
\* held before.
C18_PresentPostcondition ==
    \A p \in Procs : PresentSucceeded(p) => Published(call[p])

----------------------------------------------------------------------------
(* C19: Present and then CleanUp *)

\* The caller's CleanUp has returned success, and the call before it was a
\* successful Present with the same fqdn and value, entered on a zone with
\* no record of the derived name.
PresentThenCleanUp(p) ==
    /\ call[p].op = "CleanUp" /\ call[p].pc = "done" /\ call[p].err = NilErr
    /\ prev[p].op = "Present" /\ prev[p].ok /\ prev[p].fresh
    /\ prev[p].fqdn = call[p].fqdn
    /\ prev[p].value = call[p].value

\* C19: on a zone with no record of the derived name, a successful Present
\* followed by a successful CleanUp with the same arguments, nobody else
\* changing the zone, leaves the records the zone held before the Present,
\* and no record of that name.
C19_RoundTrip ==
    \A p \in Procs :
        PresentThenCleanUp(p) =>
            /\ records = prev[p].before
            /\ ~HasNamed(records, RecordName(call[p].fqdn, ZoneName))

\* Such a pair of calls on a zone that held a record of another name, the
\* Present having added its record and the CleanUp deleted it.
C19_Witness ==
    /\ PresentThenCleanUp(Caller)
    /\ prev[Caller].before # <<>>
    /\ prev[Caller].uris = <<"/dns/zones/show", "/dns/zones/records/add">>
    /\ Uris(call[Caller].reqs) = <<"/dns/zones/show", "/dns/zones/records/delete">>
    /\ Len(call[Caller].before) = Len(prev[Caller].before) + 1

----------------------------------------------------------------------------
(* makeRequest run twice, the two runs differing in the API key alone *)

\* What makeRequest prints with the full URL of the request, query and
\* all, in its first line.
makeRequestPrints_FullURL(cp, method, uri, body, resp) ==
    << <<"HTTP Request: ", method, " ",
         NewRequest(cp, method, uri, body).url \o "?authToken=" \o cp.authKey>>,
       <<"HTTP Body: ", body>> >>
        \o (IF resp.kind = "envelope"
            THEN << <<"HTTP Transaction: ", resp.serverTransactionId>> >>
            ELSE <<>>)

\* The lines makeRequest prints (lines 240, 241 and 259): the method and
\* APIURL with uri, the body and, once an envelope is decoded, the server's
\* transaction id.
makeRequestPrints(cp, method, uri, body, resp) ==
    << <<"HTTP Request: ", method, " ", APIURL \o uri>>,
       <<"HTTP Body: ", body>> >>
        \o (IF resp.kind = "envelope"
            THEN << <<"HTTP Transaction: ", resp.serverTransactionId>> >>
            ELSE <<>>)

\* One run of makeRequest: the request sent, the lines printed, the return.
makeRequestRun(cp, method, uri, body, resp) ==
    [request |-> NewRequest(cp, method, uri, body),
     printed |-> makeRequestPrints(cp, method, uri, body, resp),
     result |-> makeRequestResult(resp)]

\* The requests Present and CleanUp make.
Requests ==
    {[method |-> "GET", uri |-> ShowUri, body |-> [zone |-> UnFqdn(AuthZone)]]}
        \cup {[method |-> "DELETE", uri |-> DeleteUri,
               body |-> DeleteBody([Name |-> ZoneName], RecordName(f, ZoneName))] :
                f \in Fqdns}
        \cup {[method |-> "POST", uri |-> AddUri,
               body |-> AddBody([Name |-> ZoneName], RecordName(f, ZoneName), v)] :
                f \in Fqdns, v \in Values}

\* The round trips, with two transaction ids of the server.
TracedRoundTrips ==
    RoundTrips
        \cup {[r EXCEPT !.serverTransactionId = "tx2"] :
                r \in {x \in RoundTrips : x.kind = "envelope"}}

\* Two providers that differ in the key alone.
KeyPairs == {k \in (Keys \ {""}) \X (Keys \ {""}) : k[1] # k[2]}

InitLog ==
    /\ records = <<>>
    /\ call = [p \in Procs |-> Idle]
    /\ http = [p \in Procs |-> NoHttp]
    /\ prev = [p \in Procs |-> NoPrev]
    /\ provider = c
    /\ overlap = FALSE
    /\ arg \in {[kind |-> "log", keys |-> k, req |-> r, resp |-> t] :
                  k \in KeyPairs, r \in Requests, t \in TracedRoundTrips}
    /\ ret = None

\* The same makeRequest call is run by either provider, the round trip
\* coming to the same.
makeRequestTwice ==
    /\ arg.kind = "log"
    /\ ret = None
    /\ ret' = [kind |-> "log",
               runs |-> [i \in {1, 2} |->
                           makeRequestRun(
                               NewDNSProviderCredentials(arg.keys[i], <<"ns1">>).provider,
                               arg.req.method, arg.req.uri, arg.req.body, arg.resp)]]
    /\ UNCHANGED <<records, call, http, prev, provider, overlap, arg>>

NextLog == makeRequestTwice

SpecLog == InitLog /\ [][NextLog]_vars

\* C20: two runs of a makeRequest call that differ in the API key alone,
\* the provider answering the same, print the same lines (method and URL,
\* body, server transaction id) and return the same, while each sends its
\* own key as the authToken of the request.
C20_DiagnosticsKeyIndependent ==
    ret # None /\ arg.kind = "log" =>
        /\ ret.runs[1].printed = ret.runs[2].printed
        /\ ret.runs[1].result = ret.runs[2].result
        /\ \A i \in {1, 2} :
             /\ ret.runs[i].request.authToken = arg.keys[i]
             /\ ret.runs[i].printed[1] = <<"HTTP Request: ", arg.req.method, " ",
                                           APIURL \o arg.req.uri>>
             /\ ret.runs[i].printed[2] = <<"HTTP Body: ", arg.req.body>>

\* Two runs with different keys sent that printed all three lines.
C20_Witness ==
    /\ ret # None /\ arg.kind = "log"
    /\ ret.runs[1].request.authToken # ret.runs[2].request.authToken
    /\ Len(ret.runs[1].printed) = 3
    /\ ret.runs[1].printed[3] = <<"HTTP Transaction: ", "tx2">>
    /\ arg.req.method = "POST"

----------------------------------------------------------------------------
(* Two callers on one provider, their calls and round trips interleaving *)

\* The call has returned to a caller who keeps nothing of it.
ReturnUnrecorded(p) ==
    /\ call[p].pc = "done"
    /\ call' = [call EXCEPT ![p] = Idle]
    /\ UNCHANGED <<records, http, prev, provider, overlap, arg, ret>>

\* What a round trip comes to when callers run side by side: done and
\* answered, refused without an error entry or with a null one, or done
\* with the response lost.
ConcurrentOutcomes ==
    {[m |-> "ok"], [m |-> "reject", errors |-> <<>>],
     [m |-> "reject", errors |-> <<NullMessage>>], [m |-> "lost"]}

\* The host name both callers work on, and the number of records of its
\* derived name in the zone.
OneFqdn == <<"_", "a", ".">> \o AuthZone
NumberNamed(recs, name) == Cardinality({i \in 1..Len(recs) : recs[i].Name = name})

InitOne ==
    /\ records \in {z \in SeqsUpTo(StoredRecords, MaxRecords) :
                      NumberNamed(z, RecordName(OneFqdn, ZoneName)) <= 1}
    /\ call = [p \in Procs |-> Idle]
    /\ http = [p \in Procs |-> NoHttp]
    /\ prev = [p \in Procs |-> NoPrev]
    /\ provider = c
    /\ overlap = FALSE
    /\ arg = None
    /\ ret = None

NextOne ==
    \E p \in Procs :
        \/ PresentCall(p, {OneFqdn})
        \/ CleanUpCall(p, {OneFqdn})
        \/ FindZoneFails(p)
        \/ getHostedZoneRequest(p)
        \/ Serve(p, ConcurrentOutcomes)
        \/ PresentStep(p)
        \/ CleanUpStep(p)
        \/ ReturnUnrecorded(p)

SpecOne == InitOne /\ [][NextOne]_vars

\* C11: with Present and CleanUp calls for one fqdn as the only writers of
\* a zone that starts with at most one record of the derived name, their
\* requests interleaving, the zone never holds more than one record of
\* that name.
C11_SingleRecord ==
    NumberNamed(records, RecordName(OneFqdn, ZoneName)) <= 1

\* The same, for calls none of which was entered while another was running.
C11_SingleRecordInSequence == ~overlap => C11_SingleRecord

----------------------------------------------------------------------------
(* Two callers on one provider, each with a host name of its own *)

\* The host name of each caller: _a.e.c. and _a.s.e.c.  Each caller makes
\* one call.
FqdnOf(p) == IF p = Caller THEN OneFqdn ELSE <<"_", "a", ".", "s", ".">> \o AuthZone

InitPar ==
    /\ records \in SeqsUpTo(StoredRecords, MaxRecords)
    /\ call = [p \in Procs |-> Idle]
    /\ http = [p \in Procs |-> NoHttp]
    /\ prev = [p \in Procs |-> NoPrev]
    /\ provider = c
    /\ overlap = FALSE
    /\ arg = None
    /\ ret = None

NextPar ==
    \E p \in Procs :
        \/ PresentCall(p, {FqdnOf(p)})
        \/ CleanUpCall(p, {FqdnOf(p)})
        \/ FindZoneFails(p)
        \/ getHostedZoneRequest(p)
        \/ Serve(p, ConcurrentOutcomes)
        \/ PresentStep(p)
        \/ CleanUpStep(p)

SpecPar == InitPar /\ [][NextPar]_vars

\* The records of a name, in their order.
Named(recs, name) == SelectSeq(recs, LAMBDA r : r.Name = name)

\* The names a request lists.
NamesListed(req) == {req.body.records[i].name : i \in 1..Len(req.body.records)}

\* C12: with each caller in a call of Present or CleanUp for its own host
\* name of the zone, on the one provider and in any interleaving, every
\* delete and add request of a call lists the record of its own name and
\* not the other caller's; the provider's fields stay as constructed; the
\* records under the name of a call are those its requests give when
\* carried out on the zone alone; and each call runs to the end it has
\* alone, none being ended by the other.
C12_DistinctNames ==
    /\ provider = c
    /\ \A p \in Procs :
         LET cl == call[p] IN
         cl.pc # "idle" =>
            /\ \A i \in MutatingRequests(cl), q \in Procs \ {p} :
                 /\ RecordName(FqdnOf(q), ZoneName) \notin NamesListed(cl.reqs[i])
                 /\ NamesListed(cl.reqs[i]) = {RecordName(FqdnOf(p), ZoneName)}
            /\ Named(records, RecordName(cl.fqdn, ZoneName))
                 = Named(cl.alone, RecordName(cl.fqdn, ZoneName))
            /\ cl.pc # "killed"

====
